---------------------------- MODULE Spec2Model ----------------------------
(***************************************************************************)
(* A model of scripts/generate_payload.py: the payload builder that        *)
(* detects the CI platform, fetches the pull request's file changes from   *)
(* the platform API or from git, enriches them and writes payload.json.    *)
(*                                                                         *)
(* Text is modelled as sequences: a PR body is a sequence of characters    *)
(* (one-character strings), so that the regular expression of              *)
(* extract_linked_issues is matched character by character; a URL is a     *)
(* sequence of tokens in which every "/" is a token of its own.            *)
(*                                                                         *)
(* The environment is an input of the run.  A variable's truth value is    *)
(* drawn when the code first reads it (os.environ.get) and recorded in     *)
(* env, so every later read sees the same value.                           *)
(***************************************************************************)
EXTENDS Integers, Sequences, FiniteSets, TLC

VARIABLES
    pc,              \* position of the control flow
    env,             \* environment variables as read so far
    platform,        \* result of detect_platform
    steps,           \* orchestration steps main has started, in order
    http,            \* HTTP requests issued, in order, and whether each succeeded
    raised,          \* the request whose exception the fetcher's except clause caught
    cmds,            \* git commands run through run_command, in order
    diffstat,        \* Bitbucket fetcher local: diffstat_data['values']
    lines,           \* git fetcher local: output.strip().split('\n')
    idx,             \* loop position of the fetcher in diffstat / lines
    files,           \* fetcher local: the files list being accumulated
    merge_base,      \* git fetcher local
    api_result,      \* what the platform fetcher returned
    git_result,      \* what fetch_pr_data_via_git returned
    pr_data,         \* main's pr_data
    output,          \* payloads written to the output file, in order
    exit_status,     \* process exit status, once the process has ended
    pr_body,         \* PR_BODY, as characters
    pr_url,          \* PR_URL, as tokens
    linked_issues,   \* result of extract_linked_issues
    tree,            \* directories of the working directory, in os.walk order
    structure        \* result of get_repository_structure, as lines

vars == <<pc, env, platform, steps, http, raised, cmds, diffstat, lines, idx, files,
          merge_base, api_result, git_result, pr_data, output, exit_status,
          pr_body, pr_url, linked_issues, tree, structure>>

mainVars == <<env, platform, steps, http, raised, cmds, diffstat, lines, idx, files,
              merge_base, api_result, git_result, pr_data, output, exit_status>>

(***************************************************************************)
(* Bounds of the model.                                                    *)
(***************************************************************************)
MaxSegs == 3        \* segments a PR body is assembled from
MaxFiles == 13      \* files in one directory of the tree
MaxEntries == 2     \* entries of an API file listing
MaxLines == 1       \* lines of the git name-status output

Range(s) == {s[i] : i \in 1..Len(s)}

RECURSIVE Concat(_)
Concat(ss) == IF ss = <<>> THEN <<>> ELSE Head(ss) \o Concat(Tail(ss))

SeqsUpTo(S, n) == UNION {[1..k -> S] : k \in 0..n}

(***************************************************************************)
(* Issue Linker: extract_linked_issues.                                    *)
(***************************************************************************)

\* re.I on the ASCII letters the bodies use
Lower(c) ==
    CASE c = "C" -> "c" [] c = "D" -> "d" [] c = "E" -> "e" [] c = "F" -> "f"
      [] c = "I" -> "i" [] c = "L" -> "l" [] c = "O" -> "o" [] c = "R" -> "r"
      [] c = "S" -> "s" [] c = "V" -> "v" [] c = "X" -> "x" [] OTHER -> c

\* the alternation (close|closes|...|resolved), in the order the regex tries it
Keywords ==
    << <<"c", "l", "o", "s", "e">>,
       <<"c", "l", "o", "s", "e", "s">>,
       <<"c", "l", "o", "s", "e", "d">>,
       <<"f", "i", "x">>,
       <<"f", "i", "x", "e", "s">>,
       <<"f", "i", "x", "e", "d">>,
       <<"r", "e", "s", "o", "l", "v", "e">>,
       <<"r", "e", "s", "o", "l", "v", "e", "s">>,
       <<"r", "e", "s", "o", "l", "v", "e", "d">> >>

Whitespace == {" ", "\t", "\n"}
Digits == {"0", "1", "2", "3", "4", "5", "6", "7", "8", "9"}

NoMatch == [found |-> FALSE]

\* the end of the greedy run of characters of set cls that starts at pos
RECURSIVE RunEnd(_, _, _)
RunEnd(s, pos, cls) ==
    IF pos <= Len(s) /\ s[pos] \in cls THEN RunEnd(s, pos + 1, cls) ELSE pos

KeywordAt(s, pos, kw) ==
    /\ pos + Len(kw) - 1 <= Len(s)
    /\ \A i \in 1..Len(kw) : Lower(s[pos + i - 1]) = kw[i]

\* one alternative of the regex tried at pos: kw, then \s+, then #, then (\d+)
TryKeyword(s, pos, kw) ==
    IF ~KeywordAt(s, pos, kw) THEN NoMatch
    ELSE LET p1 == pos + Len(kw)
             p2 == RunEnd(s, p1, Whitespace)
             p3 == RunEnd(s, p2 + 1, Digits)
         IN  IF p2 > p1 /\ p2 <= Len(s) /\ s[p2] = "#" /\ p3 > p2 + 1
             THEN [found |-> TRUE, kw |-> SubSeq(s, pos, p1 - 1),
                   id |-> SubSeq(s, p2 + 1, p3 - 1), end |-> p3]
             ELSE NoMatch

\* the regex at pos: the first alternative, from the k-th on, that matches
RECURSIVE MatchAt(_, _, _)
MatchAt(s, pos, k) ==
    IF k > Len(Keywords) THEN NoMatch
    ELSE LET m == TryKeyword(s, pos, Keywords[k])
         IN  IF m.found THEN m ELSE MatchAt(s, pos, k + 1)

\* re.findall(regex, pr_body): the non-overlapping matches, left to right
RECURSIVE findall(_, _)
findall(s, pos) ==
    IF pos > Len(s) THEN <<>>
    ELSE LET m == MatchAt(s, pos, 1)
         IN  IF m.found
             THEN <<[kw |-> m.kw, id |-> m.id]>> \o findall(s, m.end)
             ELSE findall(s, pos + 1)

IsAt(s, pos, old) ==
    /\ pos + Len(old) - 1 <= Len(s)
    /\ SubSeq(s, pos, pos + Len(old) - 1) = old

\* str.replace(old, new) from pos on
RECURSIVE Replace(_, _, _, _)
Replace(s, pos, old, new) ==
    IF pos > Len(s) THEN <<>>
    ELSE IF IsAt(s, pos, old)
         THEN new \o Replace(s, pos + Len(old), old, new)
         ELSE <<s[pos]>> \o Replace(s, pos + 1, old, new)

\* s.rsplit('/', 1)[0]
RSplitHead(s) ==
    LET slashes == {i \in 1..Len(s) : s[i] = "/"}
    IN  IF slashes = {} THEN s
        ELSE SubSeq(s, 1, (CHOOSE i \in slashes : \A j \in slashes : j <= i) - 1)

base_issue_url(url) ==
    RSplitHead(Replace(Replace(url, 1, <<"/", "pull-requests", "/">>, <<"/", "issues", "/">>),
                       1, <<"/", "pull", "/">>, <<"/", "issues", "/">>))

LinkedIssue(kw, issue_id, base) ==
    [title |-> <<"Issue #">> \o issue_id,
     body  |-> <<"Linked via keyword '">> \o kw \o <<"'">>,
     url   |-> base \o <<"/">> \o issue_id]

\* the loop over matches, from the k-th match on, with the ids seen so far
RECURSIVE LinkLoop(_, _, _, _)
LinkLoop(matches, k, seen_ids, base) ==
    IF k > Len(matches) THEN <<>>
    ELSE IF matches[k].id \in seen_ids
         THEN LinkLoop(matches, k + 1, seen_ids, base)
         ELSE <<LinkedIssue(matches[k].kw, matches[k].id, base)>>
              \o LinkLoop(matches, k + 1, seen_ids \cup {matches[k].id}, base)

extract_linked_issues(body, url) ==
    IF body = <<>> THEN <<>>
    ELSE LinkLoop(findall(body, 1), 1, {}, base_issue_url(url))

(***************************************************************************)
(* Repository Inspector: get_repository_structure.                         *)
(***************************************************************************)
max_depth == 2
FileListLimit == 10     \* the i > 10 of the listing loop
MarkerOffset == 10      \* the len(files)-10 of the marker
exclude_dirs == {".git", "__pycache__", "node_modules", "dist", "build", "venv", ".venv"}
RootName == "repo"

DirLine(level, name) == [kind |-> "dir", indent |-> level, name |-> name, n |-> 0]
FileLine(level, i) == [kind |-> "file", indent |-> level + 1, name |-> "", n |-> i]
MarkerLine(level, more) == [kind |-> "marker", indent |-> level + 1, name |-> "", n |-> more]

\* for i, f in enumerate(files), from index i on; the files are named 0..n-1
RECURSIVE ListFiles(_, _, _)
ListFiles(n, level, i) ==
    IF i >= n THEN <<>>
    ELSE IF i > FileListLimit
         THEN <<MarkerLine(level, n - MarkerOffset)>>
         ELSE <<FileLine(level, i)>> \o ListFiles(n, level, i + 1)

\* dirs[:] = [d for d in dirs if d not in exclude_dirs]: os.walk never enters
\* a directory below an excluded one
Pruned(e) == \E i \in 1..Len(e.path) : e.path[i] \in exclude_dirs

Basename(e) == IF e.path = <<>> THEN RootName ELSE e.path[Len(e.path)]

Listed(e) == ~Pruned(e) /\ Len(e.path) < max_depth

RECURSIVE Walk(_, _)
Walk(t, k) ==
    IF k > Len(t) THEN <<>>
    ELSE IF Listed(t[k])
         THEN <<DirLine(Len(t[k].path), Basename(t[k]))>>
              \o ListFiles(t[k].nfiles, Len(t[k].path), 0)
              \o Walk(t, k + 1)
         ELSE Walk(t, k + 1)

get_repository_structure(t) == Walk(t, 1)


(***************************************************************************)
(* Values shared by the fetchers.                                          *)
(***************************************************************************)
None == [kind |-> "None"]
PrData(fs, msgs) == [kind |-> "dict", files |-> fs, commit_messages |-> msgs]

\* Python truthiness of a fetcher's result: None is falsy, a dict with keys truthy
IsNone(d) == d.kind = "None"

EnvVars ==
    {"GITHUB_ACTIONS", "BITBUCKET_PIPELINE_UUID",
     "GH_TOKEN", "GITHUB_TOKEN", "GITHUB_REPOSITORY", "PR_NUMBER",
     "BITBUCKET_WORKSPACE", "BITBUCKET_REPO_SLUG", "BITBUCKET_PR_ID",
     "BITBUCKET_ACCESS_TOKEN", "BITBUCKET_USERNAME", "BITBUCKET_APP_PASSWORD",
     "BASE_REF", "HEAD_REF"}

\* os.environ.get(name) gives None when the variable is unset, '' when it is set
\* to nothing, else a text.  The code branches on the truth value alone
\* (not x, all([...]), a or b, if x), so a variable is falsy (unset or empty)
\* or truthy, and "unread" until the code reads it.
EnvValues == {"falsy", "truthy"}
Truthy(v) == v = "truthy"

\* the reads of one step: a function from the variables it reads to their values
ReadEnv(reads) == [v \in EnvVars |-> IF v \in DOMAIN reads THEN reads[v] ELSE env[v]]

\* the first line of a commit message: message.split('\n')[0]
FirstLine(message) == message[1]
FirstLines(commits) == [i \in 1..Len(commits) |-> FirstLine(commits[i])]

\* what an HTTP request can come to: a 2xx answer, a non-2xx answer, no answer
\* at all (requests raises), an answer whose body is not the expected JSON
Outcomes == {"ok", "http_error", "network_error", "malformed"}
DiffOutcomes == {"ok", "http_error", "network_error"}

\* whether the request raises inside the fetcher's try block: the top-level
\* requests call raise_for_status() and .json(); the per-file diff request only
\* reads status_code, so only a request that got no answer raises
Raises(req, outcome) ==
    IF req = "bb_diff" THEN outcome = "network_error" ELSE outcome # "ok"

\* answers of a commits endpoint: each message is a sequence of lines
CommitLists == {<<>>, << <<"subject one">>, <<"subject two", "body">> >>}

(***************************************************************************)
(* Platform Detector.                                                      *)
(***************************************************************************)
detect_platform(github_actions, bitbucket_uuid) ==
    IF Truthy(github_actions) THEN "github"
    ELSE IF Truthy(bitbucket_uuid) THEN "bitbucket"
    ELSE "None"

(***************************************************************************)
(* GitHub Fetcher.                                                         *)
(***************************************************************************)
GithubStatuses == {"added", "removed", "modified", "renamed", "copied"}

\* a file_info of the files endpoint; a binary file carries no patch key
GithubFileInfos ==
    {[filename |-> "a", status |-> s, patch |-> "diff"] : s \in GithubStatuses}
    \cup {[filename |-> "b", status |-> "modified", patch |-> "MISSING"]}

\* status_map.get(file_info['status'], 'modified')
GithubStatus(s) ==
    CASE s = "added" -> "added"
      [] s = "removed" -> "deleted"
      [] s = "modified" -> "modified"
      [] s = "renamed" -> "renamed"
      [] OTHER -> "modified"

GithubFile(info) ==
    [filename |-> info.filename,
     status   |-> GithubStatus(info.status),
     patch    |-> IF info.patch = "MISSING" THEN "" ELSE info.patch]

\* if not all([github_token, repo, pr_number])
GithubCredsOk(gh_token, github_token, repo, pr_number) ==
    (Truthy(gh_token) \/ Truthy(github_token)) /\ Truthy(repo) /\ Truthy(pr_number)

\* variant: the except clause returns what was collected
GithubExceptPartial(collected) == PrData(collected, <<>>)

\* except Exception as e: ... return None; the files collected so far are dropped
GithubExcept(collected) == None

(***************************************************************************)
(* Bitbucket Fetcher.                                                      *)
(***************************************************************************)
Paths == {"a", "b"}
Absent == "None"
DiffstatItems == {i \in [old : Paths \cup {Absent}, new : Paths \cup {Absent}] : i.old # "b"}

\* variant: the comparison of the two paths is missing
BitbucketEntryNoRename(item) ==
    IF item.new # Absent
    THEN [skip |-> FALSE, filename |-> item.new,
          status |-> IF item.old = Absent THEN "added" ELSE "modified"]
    ELSE IF item.old # Absent
         THEN [skip |-> FALSE, filename |-> item.old, status |-> "deleted"]
         ELSE [skip |-> TRUE, filename |-> Absent, status |-> Absent]

\* filename and status of one diffstat entry; skip is the loop's continue
BitbucketEntry(item) ==
    IF item.new # Absent
    THEN [skip |-> FALSE, filename |-> item.new,
          status |-> IF item.old = Absent THEN "added"
                     ELSE IF item.old # item.new THEN "renamed"
                     ELSE "modified"]
    ELSE IF item.old # Absent
         THEN [skip |-> FALSE, filename |-> item.old, status |-> "deleted"]
         ELSE [skip |-> TRUE, filename |-> Absent, status |-> Absent]

\* if not all([workspace, repo_slug, pr_id])
BitbucketIdsOk(workspace, repo_slug, pr_id) ==
    Truthy(workspace) /\ Truthy(repo_slug) /\ Truthy(pr_id)

\* variant: the username alone passes for a credential
BitbucketAuthUserOnly(access_token, username, app_password) ==
    Truthy(access_token) \/ Truthy(username)

\* if access_token: ... elif username and app_password: ... else: return None
BitbucketAuthOk(access_token, username, app_password) ==
    Truthy(access_token) \/ (Truthy(username) /\ Truthy(app_password))

\* patch = diff_response.text if diff_response.status_code == 200 else ''
BitbucketPatch(outcome) == IF outcome = "ok" THEN "diff" ELSE ""

\* except Exception as e: ... return None
BitbucketExcept(collected) == None

(***************************************************************************)
(* Git Fallback Fetcher.                                                   *)
(***************************************************************************)
EmptyLine == <<>>

\* lines of git diff --name-status, each split at its tabs; an empty line too
NameStatusLines ==
    { <<"A", "a">>, <<"M", "a">>, <<"D", "b">>, <<"R100", "a", "b">>,
      <<"C75", "a", "b">>, EmptyLine }

\* parts[0][0]: the first character of the status field
FirstChar(field) ==
    CASE field = "R100" -> "R" [] field = "C75" -> "C" [] OTHER -> field

\* variant: status_map.get without its default
GitStatusNoDefault(status_code) ==
    CASE status_code = "A" -> "added"
      [] status_code = "M" -> "modified"
      [] status_code = "D" -> "deleted"
      [] status_code = "R" -> "renamed"
      [] OTHER -> status_code

\* status_map.get(status_code, 'modified')
GitStatus(status_code) ==
    CASE status_code = "A" -> "added"
      [] status_code = "M" -> "modified"
      [] status_code = "D" -> "deleted"
      [] status_code = "R" -> "renamed"
      [] OTHER -> "modified"

\* output.strip(): empty lines at both ends go
RECURSIVE Strip(_)
Strip(out) ==
    IF out = <<>> THEN out
    ELSE IF Head(out) = EmptyLine THEN Strip(Tail(out))
    ELSE IF out[Len(out)] = EmptyLine THEN Strip(SubSeq(out, 1, Len(out) - 1))
    ELSE out

\* .split('\n'): the empty text splits into one empty line
SplitLines(out) == IF out = <<>> THEN <<EmptyLine>> ELSE out

\* variant: "and" for "or" in the test of the two references
RefsOkEither(base_ref, head_ref) == Truthy(base_ref) \/ Truthy(head_ref)

\* if not base_ref or not head_ref
RefsOk(base_ref, head_ref) == Truthy(base_ref) /\ Truthy(head_ref)

GitFile(line, patch) ==
    [filename |-> line[Len(line)], status |-> GitStatus(FirstChar(line[1])), patch |-> patch]

\* run_command gives the output, or "" when the command fails
LogOutputs == {<<>>, <<"subject one", "", "subject two">>}
LogMessages(log_output) == SelectSeq(log_output, LAMBDA msg : msg # "")

(***************************************************************************)
(* Payload Builder: main.                                                  *)
(***************************************************************************)
\* variant: falls back also when the platform gave an empty file list
NeedsFallbackIfNoFiles(d) == IF IsNone(d) THEN TRUE ELSE d.files = <<>>

\* if not pr_data: fall back to git
NeedsFallback(d) == IsNone(d)

\* variant: the fatal test without its "or not pr_data['files']"
FatalIfNoneOnly(d) == IsNone(d)

\* if not pr_data or not pr_data['files']: sys.exit(1)
Fatal(d) == IF IsNone(d) THEN TRUE ELSE d.files = <<>>

Payload(d, issues, repo_structure, description, url) ==
    [pr_description |-> description, pr_url |-> url,
     files |-> d.files, commit_messages |-> d.commit_messages,
     linked_issues |-> issues, repository_structure |-> repo_structure]

(***************************************************************************)
(* Inputs.                                                                 *)
(***************************************************************************)
SegCloses7 == <<"c", "l", "o", "s", "e", "s", " ", "#", "7">>
SegFixes7 == <<"F", "i", "x", "e", "s", " ", "#", "7">>
SegFix07 == <<"f", "i", "x", " ", "#", "0", "7">>
SegResolved12 == <<"R", "E", "S", "O", "L", "V", "E", "D", " ", " ", "#", "1", "2">>
SegAnd == <<" ", "a", "n", "d", " ">>
SegNoSpace == <<"c", "l", "o", "s", "e", "#", "7">>
Segments == {SegCloses7, SegFixes7, SegFix07, SegResolved12, SegAnd, SegNoSpace}

Bodies == {Concat(ss) : ss \in SeqsUpTo(Segments, MaxSegs)}
Urls ==
    { <<>>,
      <<"https:", "/", "/", "github.com", "/", "acme", "/", "widgets", "/", "pull", "/", "17">>,
      <<"https:", "/", "/", "bitbucket.org", "/", "acme", "/", "widgets", "/", "pull-requests", "/", "4">> }

Dir(path, n) == [path |-> path, nfiles |-> n]
Trees ==
    {<<Dir(<<>>, n0)>> : n0 \in 0..MaxFiles}
    \cup {<<Dir(<<>>, n0), Dir(<<d>>, n1)>> :
            n0 \in 0..MaxFiles, n1 \in 0..MaxFiles, d \in {"src", "node_modules"}}
    \cup {<<Dir(<<>>, n0), Dir(<<d>>, n1), Dir(<<d, "pkg">>, n2)>> :
            n0 \in {0, 1}, n1 \in 0..MaxFiles, n2 \in {0, MaxFiles}, d \in {"src", "dist"}}

\* the enrichment inputs of a run of main
MainInputs ==
    { [body |-> <<>>, url |-> <<>>, tree |-> <<Dir(<<>>, 0)>>],
      [body |-> SegCloses7 \o SegAnd \o SegFixes7,
       url |-> <<"https:", "/", "/", "github.com", "/", "acme", "/", "widgets", "/", "pull", "/", "17">>,
       tree |-> <<Dir(<<>>, 1), Dir(<<"src">>, 2)>>] }

(***************************************************************************)
(* The state before main runs.                                             *)
(***************************************************************************)
MainIdle ==
    /\ env = [v \in EnvVars |-> "unread"]
    /\ platform = "None"
    /\ steps = <<>>
    /\ http = <<>>
    /\ raised = "None"
    /\ cmds = <<>>
    /\ diffstat = <<>>
    /\ lines = <<>>
    /\ idx = 0
    /\ files = <<>>
    /\ merge_base = "None"
    /\ api_result = None
    /\ git_result = None
    /\ pr_data = None
    /\ output = <<>>
    /\ exit_status = -1      \* the process has not ended

EnrichIdle ==
    /\ pr_body = <<>>
    /\ pr_url = <<>>
    /\ linked_issues = <<>>
    /\ tree = <<>>
    /\ structure = <<>>

enrichVars == <<pr_body, pr_url, linked_issues, tree, structure>>
gitLocals == <<lines, merge_base>>
results == <<output, exit_status>>

Init == pc = "main" /\ MainIdle /\ EnrichIdle

(***************************************************************************)
(* main, lines 322-331: detect the platform, dispatch on it.               *)
(***************************************************************************)
DetectPlatform ==
    /\ pc = "main"
    /\ \E ga \in EnvValues, bb \in EnvValues \cup {"unread"} :
         /\ (bb = "unread") <=> Truthy(ga)
         /\ env' = ReadEnv("GITHUB_ACTIONS" :> ga @@ "BITBUCKET_PIPELINE_UUID" :> bb)
         /\ platform' = detect_platform(ga, bb)
    /\ steps' = Append(steps, "detect")
    /\ pc' = "dispatch"
    /\ UNCHANGED <<http, raised, cmds, diffstat, lines, idx, files, merge_base,
                   api_result, git_result, pr_data, output, exit_status>>
    /\ UNCHANGED enrichVars

\* neither branch of lines 328-331 is taken: pr_data stays None
NoPlatformFetch ==
    /\ pc = "dispatch"
    /\ platform = "None"
    /\ pc' = "fetched"
    /\ UNCHANGED mainVars
    /\ UNCHANGED enrichVars

\* a platform fetcher returns to main: its locals go, main assigns pr_data
ApiReturn(result) ==
    /\ api_result' = result
    /\ pr_data' = result
    /\ files' = <<>>
    /\ diffstat' = <<>>
    /\ idx' = 0
    /\ pc' = "fetched"

(***************************************************************************)
(* fetch_github_pr_data.                                                   *)
(***************************************************************************)
GithubStart ==
    /\ pc = "dispatch"
    /\ platform = "github"
    /\ steps' = Append(steps, "platform_fetch")
    /\ \E gh \in EnvValues, ght \in EnvValues \cup {"unread"}, repo \in EnvValues, pr \in EnvValues :
         /\ (ght = "unread") <=> Truthy(gh)
         /\ env' = ReadEnv("GH_TOKEN" :> gh @@ "GITHUB_TOKEN" :> ght
                           @@ "GITHUB_REPOSITORY" :> repo @@ "PR_NUMBER" :> pr)
         /\ IF GithubCredsOk(gh, ght, repo, pr)
            THEN /\ pc' = "gh_files"
                 /\ UNCHANGED <<api_result, pr_data, files, diffstat, idx>>
            ELSE ApiReturn(None)
    /\ UNCHANGED <<platform, http, raised, cmds, git_result>>
    /\ UNCHANGED gitLocals
    /\ UNCHANGED results
    /\ UNCHANGED enrichVars

GithubFilesRequest ==
    /\ pc = "gh_files"
    /\ \E outcome \in Outcomes, files_data \in SeqsUpTo(GithubFileInfos, MaxEntries) :
         /\ outcome # "ok" => files_data = <<>>
         /\ http' = Append(http, [req |-> "gh_files", ok |-> outcome = "ok"])
         /\ raised' = IF Raises("gh_files", outcome) THEN "gh_files" ELSE raised
         /\ IF Raises("gh_files", outcome)
            THEN ApiReturn(GithubExcept(files))
            ELSE /\ files' = [i \in 1..Len(files_data) |-> GithubFile(files_data[i])]
                 /\ pc' = "gh_commits"
                 /\ UNCHANGED <<api_result, pr_data, diffstat, idx>>
    /\ UNCHANGED <<env, platform, steps, cmds, git_result>>
    /\ UNCHANGED gitLocals
    /\ UNCHANGED results
    /\ UNCHANGED enrichVars

GithubCommitsRequest ==
    /\ pc = "gh_commits"
    /\ \E outcome \in Outcomes, commits_data \in CommitLists :
         /\ outcome # "ok" => commits_data = <<>>
         /\ http' = Append(http, [req |-> "gh_commits", ok |-> outcome = "ok"])
         /\ raised' = IF Raises("gh_commits", outcome) THEN "gh_commits" ELSE raised
         /\ IF Raises("gh_commits", outcome)
            THEN ApiReturn(GithubExcept(files))
            ELSE ApiReturn(PrData(files, FirstLines(commits_data)))
    /\ UNCHANGED <<env, platform, steps, cmds, git_result>>
    /\ UNCHANGED gitLocals
    /\ UNCHANGED results
    /\ UNCHANGED enrichVars

(***************************************************************************)
(* fetch_bitbucket_pr_data.                                                *)
(***************************************************************************)
BitbucketStart ==
    /\ pc = "dispatch"
    /\ platform = "bitbucket"
    /\ steps' = Append(steps, "platform_fetch")
    /\ \E ws \in EnvValues, slug \in EnvValues, id \in EnvValues, tok \in EnvValues,
          user \in EnvValues \cup {"unread"}, pw \in EnvValues \cup {"unread"} :
         \* the username is read when the ids are there and the token is not,
         \* the password when the username is there
         /\ (user # "unread") <=> (BitbucketIdsOk(ws, slug, id) /\ ~Truthy(tok))
         /\ (pw # "unread") <=> Truthy(user)
         /\ env' = ReadEnv("BITBUCKET_WORKSPACE" :> ws @@ "BITBUCKET_REPO_SLUG" :> slug
                           @@ "BITBUCKET_PR_ID" :> id @@ "BITBUCKET_ACCESS_TOKEN" :> tok
                           @@ "BITBUCKET_USERNAME" :> user @@ "BITBUCKET_APP_PASSWORD" :> pw)
         /\ IF BitbucketIdsOk(ws, slug, id) /\ BitbucketAuthOk(tok, user, pw)
            THEN /\ pc' = "bb_diffstat"
                 /\ UNCHANGED <<api_result, pr_data, files, diffstat, idx>>
            ELSE ApiReturn(None)
    /\ UNCHANGED <<platform, http, raised, cmds, git_result>>
    /\ UNCHANGED gitLocals
    /\ UNCHANGED results
    /\ UNCHANGED enrichVars

BitbucketDiffstatRequest ==
    /\ pc = "bb_diffstat"
    /\ \E outcome \in Outcomes, values \in SeqsUpTo(DiffstatItems, MaxEntries) :
         /\ outcome # "ok" => values = <<>>
         /\ http' = Append(http, [req |-> "bb_diffstat", ok |-> outcome = "ok"])
         /\ raised' = IF Raises("bb_diffstat", outcome) THEN "bb_diffstat" ELSE raised
         /\ IF Raises("bb_diffstat", outcome)
            THEN ApiReturn(BitbucketExcept(files))
            ELSE /\ diffstat' = values
                 /\ idx' = 1
                 /\ files' = <<>>
                 /\ pc' = IF values = <<>> THEN "bb_commits" ELSE "bb_file"
                 /\ UNCHANGED <<api_result, pr_data>>
    /\ UNCHANGED <<env, platform, steps, cmds, git_result>>
    /\ UNCHANGED gitLocals
    /\ UNCHANGED results
    /\ UNCHANGED enrichVars

\* one iteration of the loop over the diffstat entries
BitbucketFile ==
    /\ pc = "bb_file"
    /\ LET e == BitbucketEntry(diffstat[idx])
           next == IF idx + 1 > Len(diffstat) THEN "bb_commits" ELSE "bb_file"
       IN  IF e.skip
           THEN /\ idx' = idx + 1
                /\ pc' = next
                /\ UNCHANGED <<http, raised, files, diffstat, api_result, pr_data>>
           ELSE \E outcome \in DiffOutcomes :
                  /\ http' = Append(http, [req |-> "bb_diff", ok |-> outcome = "ok"])
                  /\ raised' = IF Raises("bb_diff", outcome) THEN "bb_diff" ELSE raised
                  /\ IF Raises("bb_diff", outcome)
                     THEN ApiReturn(BitbucketExcept(files))
                     ELSE /\ files' = Append(files, [filename |-> e.filename,
                                                     status |-> e.status,
                                                     patch |-> BitbucketPatch(outcome)])
                          /\ idx' = idx + 1
                          /\ pc' = next
                          /\ UNCHANGED <<diffstat, api_result, pr_data>>
    /\ UNCHANGED <<env, platform, steps, cmds, git_result>>
    /\ UNCHANGED gitLocals
    /\ UNCHANGED results
    /\ UNCHANGED enrichVars

BitbucketCommitsRequest ==
    /\ pc = "bb_commits"
    /\ \E outcome \in Outcomes, commits_data \in CommitLists :
         /\ outcome # "ok" => commits_data = <<>>
         /\ http' = Append(http, [req |-> "bb_commits", ok |-> outcome = "ok"])
         /\ raised' = IF Raises("bb_commits", outcome) THEN "bb_commits" ELSE raised
         /\ IF Raises("bb_commits", outcome)
            THEN ApiReturn(BitbucketExcept(files))
            ELSE ApiReturn(PrData(files, FirstLines(commits_data)))
    /\ UNCHANGED <<env, platform, steps, cmds, git_result>>
    /\ UNCHANGED gitLocals
    /\ UNCHANGED results
    /\ UNCHANGED enrichVars

(***************************************************************************)
(* fetch_pr_data_via_git, entered from main's "if not pr_data".            *)
(***************************************************************************)
GitReturn(result) ==
    /\ git_result' = result
    /\ pr_data' = result
    /\ files' = <<>>
    /\ lines' = <<>>
    /\ idx' = 0
    /\ merge_base' = "None"
    /\ pc' = "check"

GitStart ==
    /\ pc = "fetched"
    /\ NeedsFallback(pr_data)
    /\ steps' = Append(steps, "git_fetch")
    /\ \E base_ref \in EnvValues, head_ref \in EnvValues :
         /\ env' = ReadEnv("BASE_REF" :> base_ref @@ "HEAD_REF" :> head_ref)
         /\ IF RefsOk(base_ref, head_ref)
            THEN /\ pc' = "git_merge_base"
                 /\ UNCHANGED <<git_result, pr_data, files, lines, idx, merge_base>>
            ELSE GitReturn(None)
    /\ UNCHANGED <<platform, http, raised, cmds, diffstat, api_result>>
    /\ UNCHANGED results
    /\ UNCHANGED enrichVars

GitMergeBase ==
    /\ pc = "git_merge_base"
    /\ \E outcome \in {"ok", "failed"} :
         /\ cmds' = Append(cmds, "merge-base")
         \* if not merge_base: merge_base = base_ref
         /\ merge_base' = IF outcome = "ok" THEN "merge-base" ELSE "BASE_REF"
    /\ pc' = "git_name_status"
    /\ UNCHANGED <<env, platform, steps, http, raised, diffstat, lines, idx, files,
                   api_result, git_result, pr_data>>
    /\ UNCHANGED results
    /\ UNCHANGED enrichVars

GitNameStatus ==
    /\ pc = "git_name_status"
    /\ \E outcome \in {"ok", "failed"}, out \in SeqsUpTo(NameStatusLines, MaxLines) :
         /\ outcome # "ok" => out = <<>>
         /\ cmds' = Append(cmds, "diff --name-status")
         /\ lines' = SplitLines(Strip(out))
    /\ idx' = 1
    /\ files' = <<>>
    /\ pc' = "git_patch"
    /\ UNCHANGED <<env, platform, steps, http, raised, diffstat, merge_base,
                   api_result, git_result, pr_data>>
    /\ UNCHANGED results
    /\ UNCHANGED enrichVars

\* one iteration of the loop over the lines of the name-status output
GitPatch ==
    /\ pc = "git_patch"
    /\ IF lines[idx] = EmptyLine
       THEN UNCHANGED <<cmds, files>>
       ELSE \E outcome \in {"ok", "failed"} :
              /\ cmds' = Append(cmds, "diff -U10")
              /\ files' = Append(files, GitFile(lines[idx],
                                                IF outcome = "ok" THEN "diff" ELSE ""))
    /\ idx' = idx + 1
    /\ pc' = IF idx + 1 > Len(lines) THEN "git_log" ELSE "git_patch"
    /\ UNCHANGED <<env, platform, steps, http, raised, diffstat, lines, merge_base,
                   api_result, git_result, pr_data>>
    /\ UNCHANGED results
    /\ UNCHANGED enrichVars

GitLog ==
    /\ pc = "git_log"
    /\ \E outcome \in {"ok", "failed"}, log_output \in LogOutputs :
         /\ outcome # "ok" => log_output = <<>>
         /\ cmds' = Append(cmds, "log")
         /\ GitReturn(PrData(files, LogMessages(log_output)))
    /\ UNCHANGED <<env, platform, steps, http, raised, diffstat, api_result>>
    /\ UNCHANGED results
    /\ UNCHANGED enrichVars

(***************************************************************************)
(* main, lines 338-390: the fatal exit, or enrichment and the write.       *)
(***************************************************************************)
AtCheck == pc = "check" \/ (pc = "fetched" /\ ~NeedsFallback(pr_data))

ExitFatal ==
    /\ AtCheck
    /\ Fatal(pr_data)
    /\ exit_status' = 1
    /\ pc' = "exit"
    /\ UNCHANGED <<env, platform, steps, http, raised, cmds, diffstat, lines, idx, files,
                   merge_base, api_result, git_result, pr_data, output>>
    /\ UNCHANGED enrichVars

WritePayload ==
    /\ AtCheck
    /\ ~Fatal(pr_data)
    /\ \E in \in MainInputs :
         /\ pr_body' = in.body
         /\ pr_url' = in.url
         /\ tree' = in.tree
         /\ structure' = get_repository_structure(in.tree)
         /\ linked_issues' = extract_linked_issues(in.body, in.url)
         /\ output' = Append(output, Payload(pr_data, extract_linked_issues(in.body, in.url),
                                             get_repository_structure(in.tree),
                                             in.body, in.url))
    /\ exit_status' = 0
    /\ pc' = "done"
    /\ UNCHANGED <<env, platform, steps, http, raised, cmds, diffstat, lines, idx, files,
                   merge_base, api_result, git_result, pr_data>>

Next ==
    \/ DetectPlatform
    \/ NoPlatformFetch
    \/ GithubStart
    \/ GithubFilesRequest
    \/ GithubCommitsRequest
    \/ BitbucketStart
    \/ BitbucketDiffstatRequest
    \/ BitbucketFile
    \/ BitbucketCommitsRequest
    \/ GitStart
    \/ GitMergeBase
    \/ GitNameStatus
    \/ GitPatch
    \/ GitLog
    \/ ExitFatal
    \/ WritePayload

Spec == Init /\ [][Next]_vars

(***************************************************************************)
(* extract_linked_issues on its own, over every body and URL.              *)
(***************************************************************************)
InitIssues ==
    /\ pc = "issues"
    /\ MainIdle
    /\ pr_body \in Bodies
    /\ pr_url \in Urls
    /\ linked_issues = <<>>
    /\ tree = <<>>
    /\ structure = <<>>

ExtractLinkedIssues ==
    /\ pc = "issues"
    /\ linked_issues' = extract_linked_issues(pr_body, pr_url)
    /\ pc' = "issues_done"
    /\ UNCHANGED mainVars
    /\ UNCHANGED <<pr_body, pr_url, tree, structure>>

NextIssues == ExtractLinkedIssues

SpecIssues == InitIssues /\ [][NextIssues]_vars

(***************************************************************************)
(* get_repository_structure on its own, over every tree.                   *)
(***************************************************************************)
InitTree ==
    /\ pc = "tree"
    /\ MainIdle
    /\ pr_body = <<>>
    /\ pr_url = <<>>
    /\ linked_issues = <<>>
    /\ tree \in Trees
    /\ structure = <<>>

GetRepositoryStructure ==
    /\ pc = "tree"
    /\ structure' = get_repository_structure(tree)
    /\ pc' = "tree_done"
    /\ UNCHANGED mainVars
    /\ UNCHANGED <<pr_body, pr_url, linked_issues, tree>>

NextTree == GetRepositoryStructure

SpecTree == InitTree /\ [][NextTree]_vars

(***************************************************************************)
(* Properties.                                                             *)
(***************************************************************************)
FetcherPcs == {"gh_files", "gh_commits", "bb_diffstat", "bb_file", "bb_commits"}
GitPcs == {"git_merge_base", "git_name_status", "git_patch", "git_log"}
Terminal == pc \in {"done", "exit"}
TopLevelRequests == {"gh_files", "gh_commits", "bb_diffstat", "bb_commits"}
CanonicalStatuses == {"added", "modified", "deleted", "renamed"}
Ran(step) == step \in Range(steps)
Falsy(name) == env[name] = "falsy"
HasFiles(d) == IF IsNone(d) THEN FALSE ELSE d.files # <<>>

\* C1: main's steps run in the order detect, at most one platform fetch, at
\* most one git fallback fetch; no platform fetch (and no HTTP request) happens
\* when the platform is unknown; the git fallback runs if and only if the
\* platform is unknown or the platform fetch returned None.
C1_StepOrder ==
    /\ steps \in { <<>>, <<"detect">>, <<"detect", "platform_fetch">>,
                   <<"detect", "git_fetch">>,
                   <<"detect", "platform_fetch", "git_fetch">> }
    /\ platform = "None" => ~Ran("platform_fetch") /\ http = <<>>
    /\ Ran("git_fetch") => platform = "None" \/ IsNone(api_result)
    /\ Terminal /\ (platform = "None" \/ IsNone(api_result)) => Ran("git_fetch")
    /\ Terminal /\ platform # "None" => Ran("platform_fetch")

\* a run that tried the platform API and then git, and wrote the payload
C1_Witness ==
    /\ pc = "done"
    /\ steps = <<"detect", "platform_fetch", "git_fetch">>

\* C2: the process exits non-zero exactly when neither the platform fetch
\* nor the git fallback gave a non-empty file list, and then nothing is
\* written; otherwise the payload is written once, as the last step, with a
\* non-empty files sequence, and the exit status is 0.
C2_ExitStatus ==
    /\ Len(output) <= 1
    /\ output # <<>> => pc = "done" /\ output[1].files # <<>>
    /\ Terminal <=> exit_status # -1
    /\ Terminal =>
         /\ exit_status # 0 <=> ~(HasFiles(api_result) \/ HasFiles(git_result))
         /\ exit_status # 0 => output = <<>>
         /\ exit_status = 0 => Len(output) = 1

\* both sources were tried, neither gave a file, the process exited with 1
C2_Witness ==
    /\ pc = "exit"
    /\ exit_status = 1
    /\ Ran("platform_fetch")
    /\ Ran("git_fetch")
    /\ ~IsNone(git_result)

\* C3: with the platform unknown and BASE_REF or HEAD_REF unset or empty,
\* the git fallback returns None without running a git command, nothing is
\* written, and the only step left is the exit with status 1.
C3_MissingRefsFatal ==
    (platform = "None" /\ (Falsy("BASE_REF") \/ Falsy("HEAD_REF"))) =>
        /\ cmds = <<>>
        /\ IsNone(git_result)
        /\ output = <<>>
        /\ pc \in {"check", "exit"}
        /\ pc = "check" => IsNone(pr_data)
        /\ pc = "exit" => exit_status = 1

C3_Witness ==
    /\ platform = "None"
    /\ env["BASE_REF"] = "truthy"
    /\ Falsy("HEAD_REF")
    /\ pc = "exit"

\* C4: a Bitbucket per-file diff request that does not succeed, in whatever
\* way, does not make the fetch return None: if every top-level request
\* succeeded, the fetch returns its data.
C4_DiffFailureIsolated ==
    ( /\ platform = "bitbucket"
      /\ pc \notin FetcherPcs \cup {"main", "dispatch"}
      /\ \E i \in 1..Len(http) : http[i].req = "bb_diff" /\ ~http[i].ok
      /\ \A i \in 1..Len(http) : http[i].req \in TopLevelRequests => http[i].ok )
    => ~IsNone(api_result)

\* C5: when a top-level request of a platform fetcher fails, the fetcher
\* returns None to main, with nothing of the files it had collected, and
\* main goes on to the git fallback.
C5_TopLevelFailure ==
    (\E i \in 1..Len(http) : http[i].req \in TopLevelRequests /\ ~http[i].ok) =>
        /\ http[Len(http)].req \in TopLevelRequests
        /\ ~http[Len(http)].ok
        /\ IsNone(api_result)
        /\ files = <<>> \/ pc \in GitPcs
        /\ pc = "fetched" => IsNone(pr_data)
        /\ pc = "fetched" \/ Ran("git_fetch")

\* the commits request failed after the files request had given files
C5_Witness ==
    /\ Len(http) = 2
    /\ http[1].ok
    /\ ~http[2].ok
    /\ http[2].req = "gh_commits"
    /\ pc = "fetched"

GithubCredsMissing ==
    /\ platform = "github"
    /\ \/ Falsy("GH_TOKEN") /\ Falsy("GITHUB_TOKEN")
       \/ Falsy("GITHUB_REPOSITORY")
       \/ Falsy("PR_NUMBER")

BitbucketCredsMissing ==
    /\ platform = "bitbucket"
    /\ \/ Falsy("BITBUCKET_WORKSPACE")
       \/ Falsy("BITBUCKET_REPO_SLUG")
       \/ Falsy("BITBUCKET_PR_ID")
       \/ /\ Falsy("BITBUCKET_ACCESS_TOKEN")
          /\ Falsy("BITBUCKET_USERNAME") \/ Falsy("BITBUCKET_APP_PASSWORD")

\* C6: when a required identifier or credential of the platform fetcher is
\* absent, no HTTP request is issued, the fetcher returns None, and main
\* runs the git fallback.
C6_MissingCredentials ==
    (GithubCredsMissing \/ BitbucketCredsMissing) =>
        /\ http = <<>>
        /\ IsNone(api_result)
        /\ pc \notin FetcherPcs
        /\ pc = "fetched" => IsNone(pr_data)
        /\ pc = "fetched" \/ Ran("git_fetch")

\* a username without its app password, and the fallback has run
C6_Witness ==
    /\ platform = "bitbucket"
    /\ env["BITBUCKET_USERNAME"] = "truthy"
    /\ Falsy("BITBUCKET_APP_PASSWORD")
    /\ Ran("git_fetch")
    /\ Terminal

\* the status the claim gives a diffstat entry
DiffstatStatus(item) ==
    IF item.new = Absent THEN "deleted"
    ELSE IF item.old = Absent THEN "added"
    ELSE IF item.old # item.new THEN "renamed"
    ELSE "modified"

\* the diffstat entries the loop has gone through
Processed == SubSeq(diffstat, 1, idx - 1)

\* C7, as stated: every diffstat entry produces exactly one FileChange,
\* with the status that the presence and equality of its paths give.
C7_EveryEntryOneFile ==
    pc \in {"bb_file", "bb_commits"} =>
        /\ Len(files) = Len(Processed)
        /\ \A k \in 1..Len(files) : files[k].status = DiffstatStatus(Processed[k])

\* C7, amended: every diffstat entry with an old or a new path record
\* produces exactly one FileChange, in order, with that status; an entry
\* with neither record produces none.
C7_EntryWithPathOneFile ==
    pc \in {"bb_file", "bb_commits"} =>
        LET present == SelectSeq(Processed,
                                 LAMBDA item : item.old # Absent \/ item.new # Absent)
        IN  /\ Len(files) = Len(present)
            /\ \A k \in 1..Len(files) :
                 /\ files[k].status = DiffstatStatus(present[k])
                 /\ files[k].filename =
                      IF present[k].new # Absent THEN present[k].new ELSE present[k].old

\* the loop is over: a renamed file was listed, an entry with no path skipped
C7_Witness ==
    /\ pc = "bb_commits"
    /\ Len(diffstat) = 2
    /\ Len(files) = 1
    /\ files[1].status = "renamed"

\* the status the claim gives a line of the name-status output
NameStatusStatus(line) ==
    CASE line[1] = "A" -> "added"
      [] line[1] = "M" -> "modified"
      [] line[1] = "D" -> "deleted"
      [] line[1] = "R100" -> "renamed"
      [] OTHER -> "modified"

\* C8: in the git fallback every non-empty line of the name-status output
\* gives exactly one files entry, with the line's last field as filename and
\* the status of its code (A, M, D, R, else modified); with the platform
\* unknown and a file list from git that is not empty, the payload is
\* written with that list, every status of it canonical.
C8_GitFallbackFiles ==
    /\ pc \in {"git_patch", "git_log"} =>
         LET nonempty == SelectSeq(SubSeq(lines, 1, idx - 1),
                                   LAMBDA line : line # EmptyLine)
         IN  /\ Len(files) = Len(nonempty)
             /\ \A k \in 1..Len(files) :
                  /\ files[k].filename = nonempty[k][Len(nonempty[k])]
                  /\ files[k].status = NameStatusStatus(nonempty[k])
    /\ (platform = "None" /\ Terminal /\ HasFiles(git_result)) =>
         /\ pc = "done"
         /\ output[1].files = git_result.files
         /\ \A k \in 1..Len(output[1].files) :
              /\ output[1].files[k].status \in CanonicalStatuses
              /\ output[1].files[k].filename \in Paths

\* a copied file, whose code is none of A, M, D, R, reached the payload
C8_Witness ==
    /\ platform = "None"
    /\ pc = "done"
    /\ cmds = <<"merge-base", "diff --name-status", "diff -U10", "log">>
    /\ output[1].files[1].status = "modified"
    /\ output[1].files[1].filename = "b"

DigitValue(c) ==
    CASE c = "0" -> 0 [] c = "1" -> 1 [] c = "2" -> 2 [] c = "3" -> 3 [] c = "4" -> 4
      [] c = "5" -> 5 [] c = "6" -> 6 [] c = "7" -> 7 [] c = "8" -> 8 [] c = "9" -> 9

\* the number a sequence of digits writes
RECURSIVE Number(_)
Number(ds) ==
    IF ds = <<>> THEN 0 ELSE 10 * Number(SubSeq(ds, 1, Len(ds) - 1)) + DigitValue(ds[Len(ds)])

\* C9: there is exactly one linked issue per distinct issue number the body
\* references, in the order of first reference, and its note names the
\* keyword of the first reference to that number.
C9_OnePerIssueNumber ==
    pc = "issues_done" =>
        LET refs == findall(pr_body, 1)
            numbers == {Number(refs[i].id) : i \in 1..Len(refs)}
            First(n) == CHOOSE i \in 1..Len(refs) :
                           /\ Number(refs[i].id) = n
                           /\ \A j \in 1..(i - 1) : Number(refs[j].id) # n
            IssueNumber(k) == Number(Tail(linked_issues[k].title))
        IN  /\ Len(linked_issues) = Cardinality(numbers)
            /\ \A k \in 1..Len(linked_issues) :
                 /\ linked_issues[k].body =
                      <<"Linked via keyword '">> \o refs[First(IssueNumber(k))].kw \o <<"'">>
                 /\ \A j \in 1..(k - 1) : First(IssueNumber(j)) < First(IssueNumber(k))

\* the k-th directory the summary lists, and the lines that follow its line
ListedDirs == SelectSeq(tree, Listed)
DirLines == {i \in 1..Len(structure) : structure[i].kind = "dir"}
BlockOf(p) ==
    {i \in (p + 1)..Len(structure) :
        \A j \in (p + 1)..i : structure[j].kind # "dir"}

\* C10: for every listed directory with n files, the summary lists all n
\* files and no marker when n <= 11, and 11 files followed by one marker
\* whose number is n - 11, the count of files not listed, when n > 11.
C10_MarkerCountsUnlisted ==
    pc = "tree_done" =>
        \A p \in DirLines :
            LET n == ListedDirs[Cardinality({q \in DirLines : q <= p})].nfiles
                listed == {i \in BlockOf(p) : structure[i].kind = "file"}
                markers == {i \in BlockOf(p) : structure[i].kind = "marker"}
            IN  IF n <= 11
                THEN Cardinality(listed) = n /\ markers = {}
                ELSE /\ Cardinality(listed) = 11
                     /\ Cardinality(markers) = 1
                     /\ \A i \in markers : i = p + 12 /\ structure[i].n = n - 11

==========================================================================
